---- MODULE Spec2Model ----
(***************************************************************************)
(* Model of the sign-up page src/pages/index.tsx (component Home).         *)
(*                                                                         *)
(* Strings are sequences of one-character strings, so that the falsy test  *)
(* `!!s` is Len(s) > 0 and the e-mail format is computed on characters.    *)
(* A JavaScript value is a tagged record: a string, a number or undefined. *)
(*                                                                         *)
(* Time is abstract: a timer is a flag that is set when the timer is       *)
(* (re)started and an action that may fire while the flag is set.  Two     *)
(* events are "less than the delay apart" when the second one happens      *)
(* while the timer started by the first is still armed.                    *)
(***************************************************************************)
EXTENDS Integers, Sequences, FiniteSets

VARIABLES
    mounted,            \* the component Home is mounted
    values,             \* react-hook-form's field values (what watch() reads)
    errors,             \* formState.errors: field -> message, only for fields in error
    isSubmitted,        \* formState.isSubmitted: a submit has been attempted
    onSubmitCalls,      \* the values the completion callback (l.111-113) was called with
    submitAttempts,     \* number of submit events handled
    debouncedPassword,  \* useState('') of l.82
    timer,              \* the timeout of useDebounce (l.84-92) is armed
    sent,               \* network calls made by fetcher: key -> number of calls with that key
    pending,            \* the requests <<key, n>> whose response has not arrived
    FETCH,              \* SWR's table of the ongoing request of a key: key -> n
    cache,              \* SWR's cache: key -> the data of the last successful response
    retry,              \* keys with an error-retry timer armed
    snapshots,          \* history: the (password, related terms) captured when the timer fired
    burst,              \* history: the shape of the run so far (see BurstAfterChange)
    staleArrived,       \* history: a response arrived for a key that was not the current key
    joined,             \* history: a revalidation found the request of its key in flight
    commits             \* history: changes of debouncedPassword since the password field changed

formVars == <<values, errors, isSubmitted, onSubmitCalls, submitAttempts>>
debounceVars == <<debouncedPassword, timer>>
swrVars == <<sent, pending, FETCH, cache, retry>>
historyVars == <<snapshots, burst, staleArrived, joined, commits>>
vars == <<mounted, formVars, debounceVars, swrVars, historyVars>>

----------------------------------------------------------------------------
(* JavaScript values *)

Undefined == [t |-> "undefined", s |-> <<>>, n |-> 0]
Str(s) == [t |-> "string", s |-> s, n |-> 0]
Num(n) == [t |-> "number", s |-> <<>>, n |-> n]

\* `!!v`: undefined, the empty string and 0 are falsy
Truthy(v) ==
    CASE v.t = "undefined" -> FALSE
      [] v.t = "string" -> Len(v.s) > 0
      [] OTHER -> v.n # 0

Fields == {"firstName", "middleName", "lastName", "email", "password"}

----------------------------------------------------------------------------
(* The validation schema, l.57-67 *)

Letters == {"a", "b", "l", "m"}
Digits == {"1", "2"}

\* a non-empty run of atoms separated by single dots
DotAtoms(x) ==
    /\ Len(x) > 0
    /\ x[1] # "."
    /\ x[Len(x)] # "."
    /\ \A i \in 1..(Len(x) - 1) : ~(x[i] = "." /\ x[i + 1] = ".")
    /\ \A i \in 1..Len(x) : x[i] \in Letters \cup Digits \cup {"."}

\* labels separated by dots, at least two of them, the last one two or more letters
DomainOk(d) ==
    LET dots == {i \in 1..Len(d) : d[i] = "."} IN
    /\ DotAtoms(d)
    /\ dots # {}
    /\ LET last == CHOOSE i \in dots : \A j \in dots : j <= i IN
       /\ Len(d) - last >= 2
       /\ \A i \in (last + 1)..Len(d) : d[i] \in Letters

\* z.string().email(): local@domain
EmailFormat(s) ==
    LET ats == {i \in 1..Len(s) : s[i] = "@"} IN
    /\ Cardinality(ats) = 1
    /\ LET a == CHOOSE i \in ats : TRUE IN
       /\ DotAtoms(SubSeq(s, 1, a - 1))
       /\ DomainOk(SubSeq(s, a + 1, Len(s)))

\* z.string(): the issue raised for v, "ok" when none
zString(v) ==
    CASE v.t = "undefined" -> "Required"
      [] v.t # "string" -> "invalid_type"
      [] OTHER -> "ok"

MinFirstName == 10

\* z.number().min(10)
zNumberMin(v) ==
    CASE v.t = "undefined" -> "Required"
      [] v.t # "number" -> "invalid_type"
      [] v.n < MinFirstName -> "too_small"
      [] OTHER -> "ok"

\* z.string().email({ message: t('email_invalid') })
zEmail(v) ==
    IF zString(v) # "ok" THEN zString(v)
    ELSE IF ~EmailFormat(v.s) THEN "email_invalid"
    ELSE "ok"

\* z.object({...}): the issue of each field
schema(vals) ==
    [f \in Fields |->
        CASE f = "firstName" -> zNumberMin(vals[f])
          [] f = "middleName" -> zString(vals[f])
          [] f = "lastName" -> zString(vals[f])
          [] f = "email" -> zEmail(vals[f])
          [] OTHER -> zString(vals[f])]

\* zodResolver(schema): the errors object, one entry per field with an issue
resolver(vals) ==
    LET bad == {f \in Fields : schema(vals)[f] # "ok"} IN
    [f \in bad |-> schema(vals)[f]]

NoErrors == [f \in {} |-> "ok"]

----------------------------------------------------------------------------
(* Bounds of the model *)

MaxRequests == 2        \* network calls in a run
MaxSubmits == 1         \* submit events in a run

(* The strings a user types in the running page: every input delivers a    *)
(* string (register() without valueAsNumber, l.124-151).                   *)
P1 == <<"a">>
P2 == <<"a", "1">>
Mail == <<"a", "@", "b", ".", "l", "m">>
Typed(f) ==
    CASE f = "password" -> {Str(<<>>), Str(P1), Str(P2)}
      [] f = "email" -> {Str(<<>>), Str(Mail)}
      [] OTHER -> {Str(<<>>)}

\* what the scoring endpoint may answer: a body with a score, or one without
Body(n) == [has |-> TRUE, score |-> n]
NoScore == [has |-> FALSE, score |-> 0]
Bodies == {Body(0), Body(5)}
AllBodies == {Body(n) : n \in -1..5} \cup {NoScore}

----------------------------------------------------------------------------
(* What a render computes, l.79-109 *)

Null == <<>>
Url == "https://dev-gcc.rain-test.com/api/1/password/strength"

\* l.79: watch('password')
password == values["password"]

\* l.80: watch(['email', 'firstName', 'lastName', 'middleName'])
relatedTerms(vals) ==
    <<vals["email"], vals["firstName"], vals["lastName"], vals["middleName"]>>

\* a key built from the unfiltered terms
NoFilter(terms) == terms

\* l.99: relatedTerms.filter((e) => !!e)
FilterTruthy(terms) == SelectSeq(terms, Truthy)

\* l.95-101: the key given to useSWR
KeyOf(dp, vals) ==
    IF Len(dp) > 0 THEN <<Url, dp, FilterTruthy(relatedTerms(vals))>> ELSE Null

CurrentKey == KeyOf(debouncedPassword, values)

\* no response body: `data` is undefined
NoData == [for |-> Null, has |-> FALSE, score |-> 0]

\* a client that keeps returning the data of an earlier key until the current
\* key has data of its own
dataKeepPrevious ==
    IF CurrentKey = Null THEN NoData
    ELSE IF CurrentKey \in DOMAIN cache THEN cache[CurrentKey]
    ELSE IF DOMAIN cache # {} THEN cache[CHOOSE k \in DOMAIN cache : TRUE]
    ELSE NoData

\* l.94: the data useSWR returns is the cache entry of the current key
data ==
    IF CurrentKey # Null /\ CurrentKey \in DOMAIN cache THEN cache[CurrentKey] ELSE NoData

\* l.94: isValidating, a request of the current key is under way
isValidating ==
    /\ CurrentKey # Null
    /\ CurrentKey \in DOMAIN FETCH
    /\ <<CurrentKey, FETCH[CurrentKey]>> \in pending

\* l.30-36
scoreMap ==
    [i \in 0..4 |->
        CASE i = 0 -> [key |-> "very_weak", score |-> 20, color |-> "red"]
          [] i = 1 -> [key |-> "weak", score |-> 40, color |-> "orange"]
          [] i = 2 -> [key |-> "average", score |-> 60, color |-> "yellow"]
          [] i = 3 -> [key |-> "strong", score |-> 80, color |-> "cyan"]
          [] OTHER -> [key |-> "very_strong", score |-> 100, color |-> "green"]]

\* scoreMap[score]?.key and the like are undefined
NoTier == [key |-> "", score |-> 0, color |-> ""]

\* a lookup that clamps the score into the table instead of missing
TierOfClamped(d) ==
    IF d.has
    THEN scoreMap[IF d.score < 0 THEN 0 ELSE IF d.score > 4 THEN 4 ELSE d.score]
    ELSE NoTier

\* l.106-109: score = data?.score, then scoreMap[score]?.key, ?.score, ?.color
TierOf(d) == IF d.has /\ d.score \in DOMAIN scoreMap THEN scoreMap[d.score] ELSE NoTier

\* l.162-172: the progress bar, the label and the hint lines are rendered
TierRendered == mounted /\ TierOf(data).key # ""

\* l.153-157: the spinner is rendered
SpinnerRendered == mounted /\ isValidating

----------------------------------------------------------------------------
(* The scoring client: useSWR(key, fetcher, { revalidateOnFocus: false }), l.94-104 *)

\* a client that never deduplicates
AlwaysStartNewRequest(k) == TRUE

\* a revalidation of key k joins the ongoing (or just finished) request of k, if any
ShouldStartNewRequest(k) == k \notin DOMAIN FETCH

\* a revalidation of key k would call fetcher
Starts(k) == k # Null /\ ShouldStartNewRequest(k)

\* the network calls made so far
Calls(k) == IF k \in DOMAIN sent THEN sent[k] ELSE 0
RECURSIVE Sum(_, _)
Sum(f, S) == IF S = {} THEN 0 ELSE LET x == CHOOSE y \in S : TRUE IN f[x] + Sum(f, S \ {x})
TotalCalls == Sum(sent, DOMAIN sent)

\* revalidate(k): l.47-53 is called unless the request is deduplicated
Revalidate(k) ==
    IF Starts(k)
    THEN /\ TotalCalls < MaxRequests
         /\ sent' = [x \in DOMAIN sent \cup {k} |-> IF x = k THEN Calls(k) + 1 ELSE sent[x]]
         /\ pending' = pending \cup {<<k, Calls(k) + 1>>}
         /\ FETCH' = [x \in DOMAIN FETCH \cup {k} |-> IF x = k THEN Calls(k) + 1 ELSE FETCH[x]]
    ELSE UNCHANGED <<sent, pending, FETCH>>

\* a revalidation of key k finds the request of k in flight
Joins(k) == k # Null /\ k \in DOMAIN FETCH /\ <<k, FETCH[k]>> \in pending

\* a client that keeps one result, whatever key it was requested for
ResponseKeyCurrent(r) == CurrentKey

\* the key under which the response of request r is stored
ResponseKey(r) == r[1]

\* a render with a key that differs from the previous render's revalidates the new key
KeyEffect(old, new) ==
    IF new # old THEN Revalidate(new) ELSE UNCHANGED <<sent, pending, FETCH>>

----------------------------------------------------------------------------
(* The form state manager: useForm({ resolver: zodResolver(schema) }), l.69-77 *)

\* a form that skips the re-validation while a scoring request is in flight
RevalidatedWhenSettled(errs, f, vals) ==
    IF pending # {} THEN errs
    ELSE [g \in (DOMAIN errs \ {f}) \cup ({f} \cap DOMAIN resolver(vals)) |->
            IF g = f THEN resolver(vals)[f] ELSE errs[g]]

\* after a submit, a change re-validates and updates the entry of the changed field only
Revalidated(errs, f, vals) ==
    LET r == resolver(vals)
        keep == DOMAIN errs \ {f}
        now == IF f \in DOMAIN r THEN {f} ELSE {}
    IN [g \in keep \cup now |-> IF g = f THEN r[f] ELSE errs[g]]

\* a handler that does not look at the errors
AlwaysCallback(errs) == TRUE

\* handleSubmit calls the completion callback when the resolver reports no error
ShouldCallback(errs) == DOMAIN errs = {}

----------------------------------------------------------------------------
(* The debounced trigger: useDebounce(fn, 1000, [password, relatedTerms]), l.84-92 *)

\* a callback without the guard of l.86
DebounceCallbackNoGuard(pw, dp) == pw.s

\* a callback that commits only while nothing is committed
DebounceCallbackOnce(pw, dp) == IF Truthy(pw) /\ dp = <<>> THEN pw.s ELSE dp

\* l.85-89: the value of debouncedPassword after the callback ran
DebounceCallback(pw, dp) == IF Truthy(pw) THEN pw.s ELSE dp

\* a hook without unmount cleanup
TimerLeftArmed(t) == t

\* the unmount cleanup of useDebounce clears the timeout
TimerAfterUnmount(t) == FALSE

\* the shape of the run so far, for the runs that are one burst of password changes
BurstAfterChange(f) ==
    IF f = "password" /\ burst \in {"none", "typing"} THEN "typing" ELSE "broken"

----------------------------------------------------------------------------
(* Events *)

\* the user edits field f, which now holds v: watch() re-renders Home
Change(f, v) ==
    /\ mounted
    /\ values[f] # v
    /\ values' = [values EXCEPT ![f] = v]
    /\ errors' = IF isSubmitted THEN Revalidated(errors, f, values') ELSE errors
    /\ timer' = TRUE
    /\ KeyEffect(CurrentKey, KeyOf(debouncedPassword, values'))
    /\ burst' = BurstAfterChange(f)
    /\ joined' = (joined \/ (KeyOf(debouncedPassword, values') # CurrentKey
                               /\ Joins(KeyOf(debouncedPassword, values'))))
    /\ commits' = IF f = "password" THEN 0 ELSE commits
    /\ UNCHANGED <<mounted, isSubmitted, onSubmitCalls, submitAttempts, debouncedPassword,
                   cache, retry, snapshots, staleArrived>>

\* the debounce timeout expires and the callback of l.85-89 runs; a state change
\* re-renders Home, which restarts the timeout and gives useSWR its new key
TimerFire ==
    /\ timer
    /\ LET dp == DebounceCallback(password, debouncedPassword) IN
       /\ debouncedPassword' = dp
       /\ IF dp # debouncedPassword
          THEN /\ timer' = TRUE
               /\ KeyEffect(CurrentKey, KeyOf(dp, values))
          ELSE /\ timer' = FALSE
               /\ UNCHANGED <<sent, pending, FETCH>>
    /\ snapshots' =
         IF Truthy(password)
         THEN snapshots \cup {<<password.s, FilterTruthy(relatedTerms(values))>>}
         ELSE snapshots
    /\ burst' = IF burst = "typing" THEN "quiet" ELSE burst
    /\ commits' = IF debouncedPassword' # debouncedPassword THEN commits + 1 ELSE commits
    /\ joined' = (joined \/ (KeyOf(debouncedPassword', values) # CurrentKey
                               /\ Joins(KeyOf(debouncedPassword', values))))
    /\ UNCHANGED <<mounted, formVars, cache, retry, staleArrived>>

\* request r is answered with body b
Respond(r, b) ==
    /\ r \in pending
    /\ pending' = pending \ {r}
    /\ LET k == ResponseKey(r) IN
       /\ cache' = [x \in DOMAIN cache \cup {k} |->
                      IF x = k THEN [for |-> r[1], has |-> b.has, score |-> b.score]
                      ELSE cache[x]]
       /\ timer' = IF mounted /\ k = CurrentKey THEN TRUE ELSE timer
    /\ staleArrived' = (staleArrived \/ r[1] # CurrentKey)
    /\ UNCHANGED <<mounted, formVars, debouncedPassword, sent, FETCH, retry,
                   snapshots, burst, joined, commits>>

\* request r fails: transport failure or non-success status (axios rejects)
Fail(r) ==
    /\ r \in pending
    /\ pending' = pending \ {r}
    /\ LET k == r[1] IN
       /\ FETCH' = [x \in DOMAIN FETCH \ {k} |-> FETCH[x]]
       /\ retry' = IF mounted /\ k = CurrentKey THEN retry \cup {k} ELSE retry
       /\ timer' = IF mounted /\ k = CurrentKey THEN TRUE ELSE timer
    /\ UNCHANGED <<mounted, formVars, debouncedPassword, sent, cache,
                   snapshots, burst, staleArrived, joined, commits>>

\* the deduplication interval of the finished request of key k is over
DedupeExpire(k) ==
    /\ k \in DOMAIN FETCH
    /\ <<k, FETCH[k]>> \notin pending
    /\ FETCH' = [x \in DOMAIN FETCH \ {k} |-> FETCH[x]]
    /\ UNCHANGED <<mounted, formVars, debounceVars, sent, pending, cache, retry,
                   historyVars>>

\* the error-retry timer of key k expires: SWR revalidates k if Home is still mounted
RetryFire(k) ==
    /\ k \in retry
    /\ retry' = retry \ {k}
    /\ IF mounted
       THEN /\ Revalidate(k)
            /\ timer' = IF Starts(k) THEN TRUE ELSE timer
       ELSE UNCHANGED <<sent, pending, FETCH, timer>>
    /\ joined' = (joined \/ (mounted /\ Joins(k)))
    /\ UNCHANGED <<mounted, formVars, debouncedPassword, cache,
                   snapshots, burst, staleArrived, commits>>

\* the browser comes back online: revalidateOnReconnect is left at its default
Reconnect ==
    /\ mounted
    /\ CurrentKey # Null
    /\ Revalidate(CurrentKey)
    /\ timer' = IF Starts(CurrentKey) THEN TRUE ELSE timer
    /\ burst' = "broken"
    /\ joined' = (joined \/ Joins(CurrentKey))
    /\ UNCHANGED <<mounted, formVars, debouncedPassword, cache, retry,
                   snapshots, staleArrived, commits>>

\* the form is submitted: onSubmit = handleSubmit(callback), l.111-116
Submit ==
    /\ mounted
    /\ submitAttempts < MaxSubmits
    /\ submitAttempts' = submitAttempts + 1
    /\ errors' = resolver(values)
    /\ isSubmitted' = TRUE
    /\ onSubmitCalls' =
         IF ShouldCallback(resolver(values)) THEN Append(onSubmitCalls, values)
         ELSE onSubmitCalls
    /\ timer' = TRUE
    /\ burst' = "broken"
    /\ UNCHANGED <<mounted, values, debouncedPassword, swrVars, snapshots,
                   staleArrived, joined, commits>>

\* Home is unmounted (navigation away)
Unmount ==
    /\ mounted
    /\ mounted' = FALSE
    /\ timer' = TimerAfterUnmount(timer)
    /\ burst' = "broken"
    /\ UNCHANGED <<formVars, debouncedPassword, swrVars, snapshots, staleArrived, joined,
                   commits>>

----------------------------------------------------------------------------
(* The page as it runs in the browser *)

Init ==
    /\ mounted = TRUE
    /\ values = [f \in Fields |-> Str(<<>>)]
    /\ errors = NoErrors
    /\ isSubmitted = FALSE
    /\ onSubmitCalls = <<>>
    /\ submitAttempts = 0
    /\ debouncedPassword = <<>>
    /\ timer = TRUE
    /\ sent = [x \in {} |-> 0]
    /\ pending = {}
    /\ FETCH = [x \in {} |-> 0]
    /\ cache = [x \in {} |-> NoData]
    /\ retry = {}
    /\ snapshots = {}
    /\ burst = "none"
    /\ staleArrived = FALSE
    /\ joined = FALSE
    /\ commits = 0

\* one event, the user typing values of T and the endpoint answering bodies of B
Step(T, B) ==
    \/ \E f \in Fields : \E v \in T[f] : Change(f, v)
    \/ TimerFire
    \/ \E r \in pending : \E b \in B : Respond(r, b)
    \/ \E r \in pending : Fail(r)
    \/ \E k \in DOMAIN FETCH : DedupeExpire(k)
    \/ \E k \in retry : RetryFire(k)
    \/ Reconnect
    \/ Submit
    \/ Unmount

Next == Step([f \in Fields |-> Typed(f)], Bodies)

Spec == Init /\ [][Next]_vars

----------------------------------------------------------------------------
(* The page with one password and every response body the endpoint may send *)

TypedTier(f) == IF f = "password" THEN {Str(<<>>), Str(P1)} ELSE {Str(<<>>)}

NextTier == Step([f \in Fields |-> TypedTier(f)], AllBodies)

SpecTier == Init /\ [][NextTier]_vars

----------------------------------------------------------------------------
(* The page with one password and every related term typed and cleared *)

TypedTerms(f) ==
    CASE f = "password" -> {Str(P1)}
      [] f = "email" -> {Str(<<>>), Str(Mail)}
      [] f = "firstName" -> {Str(<<>>), Str(<<"b">>)}
      [] f = "lastName" -> {Str(<<>>), Str(<<"l">>)}
      [] OTHER -> {Str(<<>>), Str(<<"m">>)}

\* the events that bear on the requests: no submit, no unmount
NextTerms ==
    \/ \E f \in Fields : \E v \in TypedTerms(f) : Change(f, v)
    \/ TimerFire
    \/ \E r \in pending : Respond(r, Body(0))
    \/ \E r \in pending : Fail(r)
    \/ \E k \in DOMAIN FETCH : DedupeExpire(k)
    \/ \E k \in retry : RetryFire(k)
    \/ Reconnect

SpecTerms == Init /\ [][NextTerms]_vars

----------------------------------------------------------------------------
(* The form alone, over every kind of value the schema can be given *)

AnyValue(f) ==
    CASE f = "firstName" ->
           {Undefined, Str(<<"1", "2">>), Num(9), Num(10)}
      [] f = "email" ->
           {Undefined, Str(<<>>), Str(<<"a", "@", "b">>),
            Str(<<"a", "@", "b", ".", "l">>), Str(<<".", "a", "@", "b", ".", "l", "m">>),
            Str(<<"a", ".", "b", "@", "b", ".", "l", "m">>), Str(Mail)}
      [] f = "lastName" -> {Undefined, Str(<<>>), Str(<<"l">>)}
      [] f = "middleName" -> {Undefined, Str(<<>>), Str(<<"m">>)}
      [] OTHER -> {Undefined, Str(<<>>), Str(P1)}

InitForm ==
    /\ mounted = TRUE
    /\ values \in [Fields -> UNION {AnyValue(f) : f \in Fields}]
    /\ \A f \in Fields : values[f] \in AnyValue(f)
    /\ errors = NoErrors
    /\ isSubmitted = FALSE
    /\ onSubmitCalls = <<>>
    /\ submitAttempts = 0
    /\ debouncedPassword = <<>>
    /\ timer = TRUE
    /\ sent = [x \in {} |-> 0]
    /\ pending = {}
    /\ FETCH = [x \in {} |-> 0]
    /\ cache = [x \in {} |-> NoData]
    /\ retry = {}
    /\ snapshots = {}
    /\ burst = "none"
    /\ staleArrived = FALSE
    /\ joined = FALSE
    /\ commits = 0

NextForm ==
    \/ \E f \in Fields : \E v \in AnyValue(f) : Change(f, v)
    \/ Submit

SpecForm == InitForm /\ [][NextForm]_vars

----------------------------------------------------------------------------
(* Properties *)

\* a step in which the debounce timeout expired without a state change
IdleFire == timer /\ ~timer' /\ mounted'

\* a request with key k is in flight
InFlight(k) == \E r \in pending : r[1] = k

\* C1: starting with nothing committed, one burst of password changes (each made
\* while the timer of the previous one is armed) that ends on a non-empty value
\* commits that value and nothing else, and exactly one request is sent, carrying
\* it; during the burst nothing is committed and nothing is sent.
C1_OneCommitOneRequest ==
    /\ burst = "typing" => (debouncedPassword = <<>> /\ TotalCalls = 0)
    /\ (burst = "quiet" /\ Truthy(password)) =>
          /\ debouncedPassword = password.s
          /\ TotalCalls = 1
          /\ DOMAIN sent = {KeyOf(password.s, values)}

\* C2: every request carries the (password, related terms) of a snapshot, that is
\* of the values captured at an expiry of the debounce timer: a related term
\* changed since is not sent before the timer expired again.
C2_RequestsCarrySnapshots == \A k \in DOMAIN sent : <<k[2], k[3]>> \in snapshots

\* C3: whatever the order of the responses, the data rendered while key B is
\* current is absent or is the answer to a request made with key B, never the
\* answer to a request of a superseded key A.
C3_StaleResponseGuard == (CurrentKey # Null /\ data # NoData) => data.for = CurrentKey

C3_Witness ==
    /\ staleArrived
    /\ CurrentKey # Null
    /\ \E A \in DOMAIN cache : A # CurrentKey
    /\ data.has /\ data.for = CurrentKey

\* C4: while the password field is empty no step commits a password, and the
\* expiry of the timer sends no request and captures no snapshot: the guard
\* reads the password of the latest render, not the one that started the timer.
C4_EmptyPasswordSuppressed ==
    [][~Truthy(password) =>
          /\ debouncedPassword' = debouncedPassword
          /\ IdleFire => (sent' = sent /\ snapshots' = snapshots)]_vars

C4_Witness ==
    /\ burst = "quiet"
    /\ ~Truthy(password)
    /\ ~timer /\ mounted
    /\ debouncedPassword = <<>>
    /\ TotalCalls = 0

\* C5: no call is made for a key while a request with that key is in flight, and
\* a timer expiry whose snapshot is the current key makes no call.
C5_AtMostOneCall ==
    [][/\ \A k \in DOMAIN sent : InFlight(k) => sent'[k] = sent[k]
       /\ (IdleFire /\ Truthy(password) /\ KeyOf(password.s, values) = CurrentKey)
             => sent' = sent]_vars

C5_Witness ==
    /\ joined
    /\ InFlight(CurrentKey)
    /\ sent[CurrentKey] = 1

\* C6: after the request of a key failed no further request is made for that
\* key (retry holds the keys whose request failed and was current then).
C6_NoRetry == [][\A k \in retry : Calls(k)' = Calls(k)]_vars

\* what the form's contract calls a valid field: firstName a number >= 10, email a
\* well-formed string, lastName and password strings, middleName anything
FieldValid(f, v) ==
    CASE f = "firstName" -> v.t = "number" /\ v.n >= 10
      [] f = "middleName" -> TRUE
      [] f = "email" -> v.t = "string" /\ EmailFormat(v.s)
      [] OTHER -> v.t = "string"

AllValid(vals) == \A f \in Fields : FieldValid(f, vals[f])

\* C7: a submit calls the completion callback only when every field is valid,
\* and then with the current values; when a field is invalid the callback is not
\* called and every invalid field gets an error entry.
C7_SubmitGate ==
    [][submitAttempts' # submitAttempts =>
          /\ isSubmitted'
          /\ onSubmitCalls' # onSubmitCalls =>
                (AllValid(values) /\ onSubmitCalls' = Append(onSubmitCalls, values))
          /\ ~AllValid(values) =>
                /\ onSubmitCalls' = onSubmitCalls
                /\ {f \in Fields : ~FieldValid(f, values[f])} \subseteq DOMAIN errors']_vars

C7_Witness ==
    /\ submitAttempts = 1
    /\ onSubmitCalls = <<>>
    /\ DOMAIN errors = {"email"}

\* C8: once Home is unmounted the timer is not armed, and no step commits a
\* password, captures a snapshot or sends a request.
C8_TeardownCancels ==
    [][~mounted' =>
          /\ ~timer'
          /\ debouncedPassword' = debouncedPassword
          /\ snapshots' = snapshots
          /\ sent' = sent]_vars

C8_Witness ==
    /\ ~mounted
    /\ ~timer
    /\ Truthy(password)
    /\ password.s # debouncedPassword

\* what is rendered of the tier: label key, percentage and colour, or nothing
Shown ==
    IF TierRendered
    THEN <<TierOf(data).key, TierOf(data).score, TierOf(data).color>>
    ELSE <<>>

\* C9: the tier shown is the one the table of the contract gives for the score
\* of the response, and nothing is shown for an absent or out-of-range score.
C9_TierMapping ==
    mounted =>
        Shown = CASE data.has /\ data.score = 0 -> <<"very_weak", 20, "red">>
                  [] data.has /\ data.score = 1 -> <<"weak", 40, "orange">>
                  [] data.has /\ data.score = 2 -> <<"average", 60, "yellow">>
                  [] data.has /\ data.score = 3 -> <<"strong", 80, "cyan">>
                  [] data.has /\ data.score = 4 -> <<"very_strong", 100, "green">>
                  [] OTHER -> <<>>

C9_Witness == mounted /\ data.has /\ data.score = 4 /\ TierRendered

\* a non-empty string
NonEmpty(v) == v.t = "string" /\ Len(v.s) > 0

\* C10: values with lastName, email and password non-empty, email well-formed and
\* firstName a number >= 10 have no validation error, whatever middleName is,
\* absent included.
C10_ValidHasNoErrors ==
    (/\ NonEmpty(values["lastName"])
     /\ NonEmpty(values["email"])
     /\ NonEmpty(values["password"])
     /\ EmailFormat(values["email"].s)
     /\ values["firstName"].t = "number"
     /\ values["firstName"].n >= 10)
    => DOMAIN resolver(values) = {}

RequiredFields == Fields \ {"middleName"}

\* what the contract calls a valid field: a required string is present and not
\* empty, email is well-formed, firstName is a number >= 10, middleName is free
ContractValid(f, v) ==
    \/ f = "middleName"
    \/ f = "firstName" /\ FieldValid(f, v)
    \/ f \in {"lastName", "email", "password"} /\ NonEmpty(v) /\ FieldValid(f, v)

\* C11: a submit of values that miss a required field leaves an error entry for
\* exactly the fields that are missing or invalid; and once the form validates on
\* change, a change that makes a field valid removes the entry of that field and
\* touches the entry of no other field.
C11_ExactFieldErrors ==
    [][/\ (/\ submitAttempts' # submitAttempts
           /\ \E f \in RequiredFields : ~ContractValid(f, values[f]))
          => DOMAIN errors' = {f \in Fields : ~ContractValid(f, values[f])}
       /\ \A f \in Fields :
             (isSubmitted /\ values'[f] # values[f] /\ ContractValid(f, values'[f]))
             => /\ f \notin DOMAIN errors'
                /\ \A g \in Fields \ {f} : g \in DOMAIN errors' <=> g \in DOMAIN errors]_vars

\* C12: the errors and the submit results are a function of the form's own
\* state: a step of the scoring pipeline (timer expiry, response, failure, retry,
\* reconnection) changes neither, the entries are those of the invalid fields
\* once a submit was attempted and none before, and a submit calls the completion
\* callback exactly when every field is valid, whatever the scoring state.
C12_ScoringLeavesFormAlone ==
    [][/\ (values' = values /\ submitAttempts' = submitAttempts)
             => UNCHANGED <<errors, isSubmitted, onSubmitCalls>>
       /\ DOMAIN errors' =
             IF isSubmitted' THEN {f \in Fields : ~FieldValid(f, values'[f])} ELSE {}
       /\ submitAttempts' # submitAttempts
             => (onSubmitCalls' # onSubmitCalls <=> AllValid(values))]_vars

C12_Witness ==
    /\ isSubmitted
    /\ retry # {}
    /\ data.has
    /\ Truthy(values["email"])
    /\ DOMAIN errors = {"firstName"}

\* a step in which the debounce timeout expired
Expiry == debouncedPassword' # debouncedPassword \/ IdleFire

C14_TriggerStateMachine ==
    [][/\ burst = "none" => ~timer
       /\ (~timer /\ timer') => values' # values
       /\ (Expiry /\ mounted') => ~timer']_vars

\* C15: a tier is rendered only when a response is stored for the current key,
\* and that response answers a request made with the committed password and the
\* related terms of the current key; while the current key has no response of
\* its own no tier is rendered, whatever the earlier keys were answered.
C15_TierOfCurrentSnapshot ==
    TierRendered =>
        /\ CurrentKey \in DOMAIN cache
        /\ cache[CurrentKey].for[2] = debouncedPassword
        /\ cache[CurrentKey].for[3] = FilterTruthy(relatedTerms(values))
        /\ TierOf(cache[CurrentKey]) = TierOf(data)

C15_Witness ==
    /\ mounted
    /\ CurrentKey # Null
    /\ CurrentKey \notin DOMAIN cache
    /\ \E A \in DOMAIN cache : TierOf(cache[A]).key # ""
    /\ ~TierRendered

\* the requests that settle in a step, and whether they settle with a response
Settling == pending \ pending'
Answered == FETCH' = FETCH

\* C16: while no snapshot was ever captured no request is made and neither the
\* spinner nor a tier is rendered; while Home is mounted the spinner is rendered
\* exactly when a request of the current key is in flight; and when the request
\* of the current key settles the spinner is gone and a tier is rendered only if
\* that request was answered with a score in 0..4.
C16_ThreeObservableStates ==
    [][/\ snapshots' = {} => (TotalCalls' = 0 /\ ~SpinnerRendered' /\ ~TierRendered')
       /\ mounted' => (SpinnerRendered' <=> (CurrentKey' # Null /\ InFlight(CurrentKey)'))
       /\ \A r \in Settling :
             (mounted /\ r[1] = CurrentKey)
             => /\ ~SpinnerRendered'
                /\ TierRendered' => (Answered /\ data'.has /\ data'.score \in 0..4)]_vars

\* the list with v when v is a non-empty string, the empty list otherwise
IfNonEmpty(v) == IF NonEmpty(v) THEN <<v>> ELSE <<>>

\* the non-empty values among email, firstName, lastName, middleName, in that order
NonEmptyTerms(vals) ==
    IfNonEmpty(vals["email"]) \o IfNonEmpty(vals["firstName"])
        \o IfNonEmpty(vals["lastName"]) \o IfNonEmpty(vals["middleName"])

\* the keys a step sends a request for
Issued == {k \in DOMAIN sent' : Calls(k)' > Calls(k)}

C18_CommittedNeverEmpties ==
    [][Len(debouncedPassword) > 0 =>
          /\ Len(debouncedPassword') > 0
          /\ CurrentKey' # Null
          /\ CurrentKey'[2] = debouncedPassword'
          /\ ~Truthy(password) => debouncedPassword' = debouncedPassword]_vars

C18_Witness ==
    /\ mounted
    /\ password = Str(<<>>)
    /\ debouncedPassword = P2
    /\ CurrentKey # Null
    /\ ~timer
    /\ pending = {}
    /\ retry = {}

\* the committed password is the non-empty password of the field, no request is
\* outstanding and the debounce timeout is not armed
Settled ==
    /\ mounted
    /\ Truthy(password)
    /\ debouncedPassword = password.s
    /\ pending = {}
    /\ ~timer

\* a step of the user or of the browser: a field change, a submit, an unmount,
\* or a revalidation on reconnection
OutsideEvent ==
    \/ values' # values
    \/ submitAttempts' # submitAttempts
    \/ ~mounted'
    \/ sent' # sent /\ retry' = retry /\ debouncedPassword' = debouncedPassword

\* C19: once the committed password is the password of the field, every request
\* has settled and the timeout has expired without effect, the page is at rest:
\* unless the user or the browser acts, no step changes the committed password,
\* sends a request or arms the timeout.
C19_Quiescence ==
    [][(Settled /\ ~OutsideEvent) =>
          /\ debouncedPassword' = debouncedPassword
          /\ sent' = sent
          /\ ~timer']_vars

====
